---- MODULE Spec2Model ----
(***************************************************************************)
(* A model of knowit's MediaInfo provider                                  *)
(* (knowit/providers/mediainfo.py) and of the two property handlers        *)
(* knowit/properties/basic.py and knowit/properties/audio/channels.py.     *)
(*                                                                         *)
(* Three specifications share the variables:                               *)
(*   Spec         one describe() call after another: PROBE, CLASSIFY,      *)
(*                NORMALIZE (per track), ASSEMBLE, `if not result`;        *)
(*   SpecAccepts  sequences of accepts() calls on one provider;            *)
(*   SpecHandlers Basic.handle and AudioChannels.handle applied to raw     *)
(*                values on one context.                                   *)
(*                                                                         *)
(* Strings whose characters matter (paths, raw field values) are tuples of *)
(* one-character strings, so that lower(), endswith(), int() and float()   *)
(* are computed character by character.                                    *)
(***************************************************************************)
EXTENDS Integers, Sequences, FiniteSets, TLC

VARIABLES
    executor,        \* self.executor: "None", "False" or "Exec" (an executor object)
    located,         \* what get_executor_instance returned at construction
    history,         \* the accepts() calls made so far: <<[path, result], ...>>
    pc,              \* position of the current describe() call
    probeCount,      \* executor.extract_info invocations made by the current call
    data,            \* json.loads(media_info)
    i,               \* number of tracks the classification loop has consumed
    general_tracks,
    video_tracks,
    audio_tracks,
    subtitle_tracks,
    nType,           \* track type _describe_tracks is working on
    nPos,            \* index of the track of that type being normalized
    nProp,           \* index of the next schema property of that track
    handled,         \* properties of the current track whose handler has run
    ruled,           \* rules executed on the current track
    result,          \* the result mapping's track entries
    resultKeys,      \* the keys of the result mapping ({} is the empty dict)
    exc,             \* the exception that ended the call, or "none"
    hphase,          \* "ready" or "returned": a handler call in the handler spec
    hcall,           \* the last handler call: handler, raw value, warnings before
    houtcome,        \* what that call did: returned a value, or raised
    warnings         \* the context's recorded warnings (reporting property names)

vars == <<executor, located, history, pc, probeCount, data, i, general_tracks,
          video_tracks, audio_tracks, subtitle_tracks, nType, nPos, nProp,
          handled, ruled, result, resultKeys, exc, hphase, hcall, houtcome,
          warnings>>

providerVars == <<executor, located, history>>
describeVars == <<pc, probeCount, data, i, general_tracks, video_tracks,
                  audio_tracks, subtitle_tracks, nType, nPos, nProp, handled,
                  ruled, result, resultKeys, exc>>
handlerVars == <<hphase, hcall, houtcome, warnings>>

\* ------------------------------------------------------------------ bounds

\* Longest track list a probe output holds.
MaxTracks == 3
\* Longest enumerated raw string (named longer strings are added to these).
MaxStrLen == 3
\* Most warnings one context accumulates before it is discarded.
MaxWarnings == 2
\* Most accepts() calls made on one provider.
MaxCalls == 3

\* --------------------------------------------------------------- sequences

Range(s) == {s[k] : k \in 1..Len(s)}

IsPrefix(p, s) == Len(p) <= Len(s) /\ \A k \in 1..Len(p) : p[k] = s[k]

EndsWith(s, suffix) ==
    /\ Len(suffix) <= Len(s)
    /\ \A k \in 1..Len(suffix) : s[Len(s) - Len(suffix) + k] = suffix[k]

\* str.lower() on the letters the model's strings are made of.
LowerChar(c) ==
    CASE c = "A" -> "a" [] c = "B" -> "b" [] c = "C" -> "c" [] c = "D" -> "d"
      [] c = "E" -> "e" [] c = "I" -> "i" [] c = "J" -> "j" [] c = "K" -> "k"
      [] c = "M" -> "m" [] c = "O" -> "o" [] c = "P" -> "p" [] c = "S" -> "s"
      [] c = "T" -> "t" [] c = "V" -> "v" [] c = "X" -> "x"
      [] OTHER -> c

Lower(s) == [k \in 1..Len(s) |-> LowerChar(s[k])]

\* ------------------------------------------------- MediaInfoProvider schema

TrackTypes == {"General", "Video", "Audio", "Text", "Menu", "absent"}

GeneralProps == <<"title", "path", "duration", "size", "bit_rate">>

VideoProps ==
    <<"id", "name", "language", "duration", "size", "width", "height",
      "scan_type", "aspect_ratio", "pixel_aspect_ratio", "resolution",
      "frame_rate", "bit_rate", "bit_depth", "codec", "profile",
      "profile_level", "profile_tier", "encoder", "media_type", "forced",
      "default">>

AudioProps ==
    <<"id", "name", "language", "duration", "size", "codec", "profile",
      "channels_count", "channel_positions", "channels", "bit_depth",
      "bit_rate", "bit_rate_mode", "sampling_rate", "compression", "forced",
      "default">>

SubtitleProps ==
    <<"id", "name", "language", "hearing_impaired", "_closed_caption",
      "closed_caption", "format", "forced", "default">>

\* Schema entries declared None: placeholders a rule populates, no handler.
Placeholders == {"resolution", "channels", "hearing_impaired", "closed_caption"}

VideoRules == <<"language", "resolution">>

AudioRulesSwapped == <<"language", "_atmosrule", "channels", "_dtshdrule">>

AudioRules == <<"language", "channels", "_atmosrule", "_dtshdrule">>

SubtitleRules == <<"language", "hearing_impaired", "closed_caption">>

PropsOf(t) ==
    CASE t = "general" -> GeneralProps
      [] t = "video" -> VideoProps
      [] t = "audio" -> AudioProps
      [] t = "subtitle" -> SubtitleProps

\* The general mapping declares no rules: self.rules.get(track_type, {}).
RulesOf(t) ==
    CASE t = "general" -> <<>>
      [] t = "video" -> VideoRules
      [] t = "audio" -> AudioRules
      [] t = "subtitle" -> SubtitleRules

\* ------------------------------------------------------------ probe output

\* A raw track: its '@type' ("absent" when the key is missing) and its place
\* in the probe's list, which tells one track from another.
TrackLists ==
    UNION {{[k \in 1..n |-> [type |-> f[k], idx |-> k]] : f \in [1..n -> TrackTypes]}
           : n \in 0..MaxTracks}

\* json.loads(media_info): no 'media' key, 'media' without a 'track' key, or
\* 'media' with a track list.
ProbeOutputs ==
    {[media |-> FALSE, hasTrack |-> FALSE, track |-> <<>>],
     [media |-> TRUE, hasTrack |-> FALSE, track |-> <<>>]}
    \cup {[media |-> TRUE, hasTrack |-> TRUE, track |-> t] : t \in TrackLists}

NoData == [media |-> FALSE, hasTrack |-> FALSE, track |-> <<>>]

\* data.get('media', {}).get('track', [])
Tracks(d) == IF d.media /\ d.hasTrack THEN d.track ELSE <<>>

NoTrack == [idx |-> 0, props |-> <<>>, rules |-> <<>>]

EmptyResult == [general |-> NoTrack, video |-> <<>>, audio |-> <<>>, subtitle |-> <<>>,
                provider |-> [name |-> "none", version |-> {}]]

\* MediaInfoProvider.version: the keys of the versions mapping.
Version(e) == {"pymediainfo"} \cup (IF e = "Exec" THEN {"location"} ELSE {})

ProviderBlockNoVersion(e) == [name |-> "mediainfo", version |-> {}]

ProviderBlock(e) == [name |-> "mediainfo", version |-> Version(e)]

\* The if/elif chain of the classification loop: the list a track goes to.
ClassOfTextAsAudio(track_type) ==
    CASE track_type = "General" -> "general"
      [] track_type = "Video" -> "video"
      [] track_type = "Audio" -> "audio"
      [] track_type = "Text" -> "audio"
      [] OTHER -> "dropped"

ClassOf(track_type) ==
    CASE track_type = "General" -> "general"
      [] track_type = "Video" -> "video"
      [] track_type = "Audio" -> "audio"
      [] track_type = "Text" -> "subtitle"
      [] OTHER -> "dropped"

\* The empty mapping {}: a raw track with no key at all.
EmptyTrack == [type |-> "absent", idx |-> 0]

\* general_tracks[0] if general_tracks else {}
GeneralTrack(gs) == IF gs /= <<>> THEN gs[1] ELSE EmptyTrack

\* `if not result`: an empty dict is falsy.
NotResultNever(keys) == FALSE

NotResult(keys) == keys = {}

\* Where a describe() call goes after executor.extract_info: on with the
\* data, or out with the failure (no except clause around line 277).
AfterProbeRetry(ok) == IF ok THEN "loaded" ELSE "probe"

AfterProbe(ok) == IF ok THEN "loaded" ELSE "raised"

\* ------------------------------------------- MediaInfoProvider.describe

DescribeInit ==
    /\ pc = "idle"
    /\ probeCount = 0
    /\ data = NoData
    /\ i = 0
    /\ general_tracks = <<>>
    /\ video_tracks = <<>>
    /\ audio_tracks = <<>>
    /\ subtitle_tracks = <<>>
    /\ nType = "none"
    /\ nPos = 0
    /\ nProp = 0
    /\ handled = <<>>
    /\ ruled = <<>>
    /\ result = EmptyResult
    /\ resultKeys = {}
    /\ exc = "none"

\* A caller invokes describe() on a provider that accepted the path, which
\* takes an executor (accepts() is falsy without one).
DescribeCall ==
    /\ pc = "idle"
    /\ executor = "Exec"
    /\ pc' = "probe"
    /\ UNCHANGED <<probeCount, data, i, general_tracks, video_tracks, audio_tracks,
                   subtitle_tracks, nType, nPos, nProp, handled, ruled, result,
                   resultKeys, exc>>
    /\ UNCHANGED <<providerVars, handlerVars>>

\* media_info = self.executor.extract_info(video_path); data = json.loads(..)
ProbeReturns(d) ==
    /\ pc = "probe"
    /\ probeCount' = probeCount + 1
    /\ pc' = AfterProbe(TRUE)
    /\ data' = d
    /\ UNCHANGED <<i, general_tracks, video_tracks, audio_tracks, subtitle_tracks,
                   nType, nPos, nProp, handled, ruled, result, resultKeys, exc>>
    /\ UNCHANGED <<providerVars, handlerVars>>

\* extract_info raises (the subprocess or the library call failed): nothing
\* in describe() catches it.
ProbeFails ==
    /\ pc = "probe"
    /\ probeCount' = probeCount + 1
    /\ pc' = AfterProbe(FALSE)
    /\ exc' = IF pc' = "raised" THEN "ProbeFailed" ELSE exc
    /\ UNCHANGED <<data, i, general_tracks, video_tracks, audio_tracks,
                   subtitle_tracks, nType, nPos, nProp, handled, ruled, result,
                   resultKeys>>
    /\ UNCHANGED <<providerVars, handlerVars>>

\* result = {}; tracks = ...; if tracks: the four empty lists
ClassifyStart ==
    /\ pc = "loaded"
    /\ pc' = IF Tracks(data) /= <<>> THEN "classify" ELSE "check"
    /\ UNCHANGED <<probeCount, data, i, general_tracks, video_tracks, audio_tracks,
                   subtitle_tracks, nType, nPos, nProp, handled, ruled, result,
                   resultKeys, exc>>
    /\ UNCHANGED <<providerVars, handlerVars>>

\* One iteration of `for track in tracks`.
ClassifyStep ==
    /\ pc = "classify"
    /\ i < Len(Tracks(data))
    /\ LET track == Tracks(data)[i + 1]
           c == ClassOf(track.type)
       IN /\ general_tracks' =
                 IF c = "general" THEN Append(general_tracks, track) ELSE general_tracks
          /\ video_tracks' =
                 IF c = "video" THEN Append(video_tracks, track) ELSE video_tracks
          /\ audio_tracks' =
                 IF c = "audio" THEN Append(audio_tracks, track) ELSE audio_tracks
          /\ subtitle_tracks' =
                 IF c = "subtitle" THEN Append(subtitle_tracks, track) ELSE subtitle_tracks
    /\ i' = i + 1
    /\ UNCHANGED <<pc, probeCount, data, nType, nPos, nProp, handled, ruled, result,
                   resultKeys, exc>>
    /\ UNCHANGED <<providerVars, handlerVars>>

\* The raw tracks _describe_tracks receives for each track type.
InputOf(t) ==
    CASE t = "general" -> <<GeneralTrack(general_tracks)>>
      [] t = "video" -> video_tracks
      [] t = "audio" -> audio_tracks
      [] t = "subtitle" -> subtitle_tracks

TypesAfter(t) ==
    CASE t = "general" -> <<"video", "audio", "subtitle">>
      [] t = "video" -> <<"audio", "subtitle">>
      [] t = "audio" -> <<"subtitle">>
      [] t = "subtitle" -> <<>>

\* The loop is over: result = self._describe_tracks(video_path, general, ...)
CallDescribeTracks ==
    /\ pc = "classify"
    /\ i = Len(Tracks(data))
    /\ pc' = "normalize"
    /\ nType' = "general"
    /\ nPos' = 1
    /\ nProp' = 1
    /\ handled' = <<>>
    /\ ruled' = <<>>
    /\ UNCHANGED <<probeCount, data, i, general_tracks, video_tracks, audio_tracks,
                   subtitle_tracks, result, resultKeys, exc>>
    /\ UNCHANGED <<providerVars, handlerVars>>

\* NORMALIZE, one declared property: look the raw value up and run the
\* handler; a None entry of the schema is a placeholder and has no handler.
NormalizeProp ==
    /\ pc = "normalize"
    /\ nProp <= Len(PropsOf(nType))
    /\ LET name == PropsOf(nType)[nProp]
       IN handled' = IF name \in Placeholders THEN handled ELSE Append(handled, name)
    /\ nProp' = nProp + 1
    /\ UNCHANGED <<pc, probeCount, data, i, general_tracks, video_tracks, audio_tracks,
                   subtitle_tracks, nType, nPos, ruled, result, resultKeys, exc>>
    /\ UNCHANGED <<providerVars, handlerVars>>

\* NORMALIZE, one declared rule, after the properties.
NormalizeRule ==
    /\ pc = "normalize"
    /\ nProp > Len(PropsOf(nType))
    /\ Len(ruled) < Len(RulesOf(nType))
    /\ ruled' = Append(ruled, RulesOf(nType)[Len(ruled) + 1])
    /\ UNCHANGED <<pc, probeCount, data, i, general_tracks, video_tracks, audio_tracks,
                   subtitle_tracks, nType, nPos, nProp, handled, result, resultKeys, exc>>
    /\ UNCHANGED <<providerVars, handlerVars>>

Normalized == [idx |-> InputOf(nType)[nPos].idx, props |-> handled, rules |-> ruled]

Stored(r) ==
    CASE nType = "general" -> [r EXCEPT !.general = Normalized]
      [] nType = "video" -> [r EXCEPT !.video = Append(@, Normalized)]
      [] nType = "audio" -> [r EXCEPT !.audio = Append(@, Normalized)]
      [] nType = "subtitle" -> [r EXCEPT !.subtitle = Append(@, Normalized)]

\* The next track type that has tracks to normalize, "end" when none has.
NextWork(t) ==
    LET later == SelectSeq(TypesAfter(t), LAMBDA u : InputOf(u) /= <<>>)
    IN IF later = <<>> THEN "end" ELSE later[1]

\* The current track is normalized: store it, go on to the next track.
TrackDone ==
    /\ pc = "normalize"
    /\ nProp > Len(PropsOf(nType))
    /\ Len(ruled) = Len(RulesOf(nType))
    /\ result' = Stored(result)
    /\ handled' = <<>>
    /\ ruled' = <<>>
    /\ IF nPos < Len(InputOf(nType))
       THEN /\ nPos' = nPos + 1
            /\ nProp' = 1
            /\ UNCHANGED <<nType, pc, resultKeys>>
       ELSE IF NextWork(nType) /= "end"
       THEN /\ nType' = NextWork(nType)
            /\ nPos' = 1
            /\ nProp' = 1
            /\ UNCHANGED <<pc, resultKeys>>
       ELSE \* ASSEMBLE: the mapping _describe_tracks returns
            /\ nType' = "none"
            /\ nPos' = 0
            /\ nProp' = 0
            /\ resultKeys' = {"general", "video", "audio", "subtitle"}
            /\ pc' = "check"
    /\ UNCHANGED <<probeCount, data, i, general_tracks, video_tracks, audio_tracks,
                   subtitle_tracks, exc>>
    /\ UNCHANGED <<providerVars, handlerVars>>

\* if not result: raise MalformedFileError
RaiseMalformed ==
    /\ pc = "check"
    /\ NotResult(resultKeys)
    /\ pc' = "raised"
    /\ exc' = "MalformedFileError"
    /\ UNCHANGED <<probeCount, data, i, general_tracks, video_tracks, audio_tracks,
                   subtitle_tracks, nType, nPos, nProp, handled, ruled, result,
                   resultKeys>>
    /\ UNCHANGED <<providerVars, handlerVars>>

\* result['provider'] = {...}; return result
ReturnResult ==
    /\ pc = "check"
    /\ ~NotResult(resultKeys)
    /\ resultKeys' = resultKeys \cup {"provider"}
    /\ result' = [result EXCEPT !.provider = ProviderBlock(executor)]
    /\ pc' = "done"
    /\ UNCHANGED <<probeCount, data, i, general_tracks, video_tracks, audio_tracks,
                   subtitle_tracks, nType, nPos, nProp, handled, ruled, exc>>
    /\ UNCHANGED <<providerVars, handlerVars>>

\* The call is over (returned or raised); the provider is ready for the next.
CallOver ==
    /\ pc \in {"done", "raised"}
    /\ pc' = "idle"
    /\ probeCount' = 0
    /\ data' = NoData
    /\ i' = 0
    /\ general_tracks' = <<>>
    /\ video_tracks' = <<>>
    /\ audio_tracks' = <<>>
    /\ subtitle_tracks' = <<>>
    /\ nType' = "none"
    /\ nPos' = 0
    /\ nProp' = 0
    /\ handled' = <<>>
    /\ ruled' = <<>>
    /\ result' = EmptyResult
    /\ resultKeys' = {}
    /\ exc' = "none"
    /\ UNCHANGED <<providerVars, handlerVars>>

AcceptsIdle ==
    /\ history = <<>>

HandlersIdle ==
    /\ hphase = "ready"
    /\ hcall = [handler |-> "none",
                value |-> [kind |-> "none", s |-> <<>>, n |-> 0, scale |-> 0],
                before |-> <<>>]
    /\ houtcome = [status |-> "none",
                   value |-> [kind |-> "none", s |-> <<>>, n |-> 0, scale |-> 0],
                   exc |-> "none"]
    /\ warnings = <<>>

Init ==
    /\ located = "Exec"
    /\ executor = located
    /\ AcceptsIdle
    /\ DescribeInit
    /\ HandlersIdle

Next ==
    \/ DescribeCall
    \/ \E d \in ProbeOutputs : ProbeReturns(d)
    \/ ProbeFails
    \/ ClassifyStart
    \/ ClassifyStep
    \/ CallDescribeTracks
    \/ NormalizeProp
    \/ NormalizeRule
    \/ TrackDone
    \/ RaiseMalformed
    \/ ReturnResult
    \/ CallOver

Spec == Init /\ [][Next]_vars

\* ------------------------------------------------------ describe(): claims

Recognised == {"General", "Video", "Audio", "Text"}

OfType(ts, t) == SelectSeq(ts, LAMBDA track : track.type = t)

\* The probe returned and its output holds no track at all.
ZeroTracks ==
    /\ pc \in {"check", "normalize", "classify", "done", "raised"}
    /\ exc /= "ProbeFailed"
    /\ Tracks(data) = <<>>

\* The probe returned a non-empty track list without one recognised '@type'.
OnlyUnrecognised ==
    /\ pc \in {"check", "normalize", "classify", "done", "raised"}
    /\ Tracks(data) /= <<>>
    /\ \A k \in 1..Len(Tracks(data)) : Tracks(data)[k].type \notin Recognised

HasRecognised ==
    \E k \in 1..Len(Tracks(data)) : Tracks(data)[k].type \in Recognised

\* C1: when the probe output has zero tracks ('media' missing, 'track'
\* missing, or an empty track list) describe() goes straight to its
\* `if not result`, where it can only raise MalformedFileError: no track is classified
\* or normalized, no result is returned and no provider block is attached.
C1_ZeroTracksRaiseMalformed ==
    ZeroTracks =>
        /\ pc \in {"check", "raised"}
        /\ pc = "check" => (ENABLED RaiseMalformed) /\ ~(ENABLED ReturnResult)
        /\ pc = "raised" => exc = "MalformedFileError"
        /\ resultKeys = {}
        /\ result = EmptyResult

C1_Witness ==
    /\ pc = "raised"
    /\ exc = "MalformedFileError"
    /\ data.media
    /\ data.hasTrack
    /\ data.track = <<>>

\* C2: a call whose probe output has a non-empty track list without any
\* General, Video, Audio or Text track ends by raising MalformedFileError.
C2_UnrecognisedRaiseMalformed ==
    (OnlyUnrecognised /\ pc \in {"done", "raised"}) =>
        (pc = "raised" /\ exc = "MalformedFileError")

C8_ClassifyPartition ==
    pc \in {"classify", "normalize", "check", "done"} =>
        LET seen == SubSeq(Tracks(data), 1, i)
            generals == OfType(seen, "General")
        IN /\ video_tracks = OfType(seen, "Video")
           /\ audio_tracks = OfType(seen, "Audio")
           /\ subtitle_tracks = OfType(seen, "Text")
           /\ general_tracks = generals
           /\ InputOf("general") =
                 <<IF generals = <<>> THEN EmptyTrack ELSE generals[1]>>
           /\ Len(video_tracks) + Len(audio_tracks) + Len(subtitle_tracks)
                 + Len(general_tracks)
                 = Cardinality({k \in 1..i : Tracks(data)[k].type \in Recognised})
           /\ exc = "none"
           /\ pc /= "classify" => i = Len(Tracks(data))
           /\ pc = "done" =>
                 /\ result.general.idx = InputOf("general")[1].idx
                 /\ [k \in 1..Len(result.video) |-> result.video[k].idx]
                       = [k \in 1..Len(video_tracks) |-> video_tracks[k].idx]
                 /\ [k \in 1..Len(result.audio) |-> result.audio[k].idx]
                       = [k \in 1..Len(audio_tracks) |-> audio_tracks[k].idx]
                 /\ [k \in 1..Len(result.subtitle) |-> result.subtitle[k].idx]
                       = [k \in 1..Len(subtitle_tracks) |-> subtitle_tracks[k].idx]

C8_Witness ==
    /\ pc = "normalize"
    /\ Len(Tracks(data)) = 3
    /\ Tracks(data)[1].type = "Menu"
    /\ Tracks(data)[2].type = "General"
    /\ Tracks(data)[3].type = "General"
    /\ InputOf("general") = <<Tracks(data)[2]>>

\* C9: on every audio track the handlers of all declared audio properties
\* have run before the first audio rule runs, and the audio rules run once
\* each in the order language, channels, _atmosrule, _dtshdrule; so
\* _atmosrule and _dtshdrule never run before codec, profile, compression
\* and channel_positions were processed.
C9_AudioRulesAfterHandlers ==
    LET rules == <<"language", "channels", "_atmosrule", "_dtshdrule">>
        props == <<"id", "name", "language", "duration", "size", "codec",
                   "profile", "channels_count", "channel_positions", "bit_depth",
                   "bit_rate", "bit_rate_mode", "sampling_rate", "compression",
                   "forced", "default">>
    IN /\ (pc = "normalize" /\ nType = "audio") =>
              /\ IsPrefix(ruled, rules)
              /\ IsPrefix(handled, props)
              /\ ruled /= <<>> => handled = props
              /\ (\E k \in 1..Len(ruled) : ruled[k] \in {"_atmosrule", "_dtshdrule"}) =>
                    {"codec", "profile", "compression", "channel_positions"}
                        \subseteq Range(handled)
       /\ \A k \in 1..Len(result.audio) :
              /\ result.audio[k].rules = rules
              /\ result.audio[k].props = props
       /\ pc \in {"check", "done"} => Len(result.audio) = Len(audio_tracks)

C9_Witness ==
    /\ pc = "normalize"
    /\ nType = "audio"
    /\ nPos = 2
    /\ ruled = <<"language", "channels", "_atmosrule">>

\* C10: a describe() call invokes executor.extract_info exactly once, before
\* anything is classified; when the invocation fails the call ends with that
\* failure: no second invocation, nothing classified, normalized or
\* assembled, no result.
C10_ProbeOnceNoRetry ==
    /\ pc \in {"idle", "probe"} =>
          /\ probeCount = 0
          /\ data = NoData /\ i = 0 /\ resultKeys = {} /\ result = EmptyResult
    /\ pc \in {"loaded", "classify", "normalize", "check", "done"} =>
          probeCount = 1 /\ exc = "none"
    /\ pc = "raised" => probeCount = 1 /\ exc \in {"ProbeFailed", "MalformedFileError"}
    /\ (pc = "raised" /\ exc = "ProbeFailed") =>
          /\ data = NoData
          /\ i = 0
          /\ general_tracks = <<>> /\ video_tracks = <<>>
          /\ audio_tracks = <<>> /\ subtitle_tracks = <<>>
          /\ nType = "none" /\ handled = <<>> /\ ruled = <<>>
          /\ resultKeys = {}
          /\ result = EmptyResult
          /\ ~(ENABLED ProbeFails)
          /\ ~(ENABLED ClassifyStart)
          /\ ~(ENABLED ReturnResult)

C10_Witness ==
    /\ pc = "raised"
    /\ exc = "ProbeFailed"
    /\ probeCount = 1

\* ------------------------------------------- MediaInfoProvider.accepts

\* knowit.VIDEO_EXTENSIONS: the known video extensions (three of them here).
VIDEO_EXTENSIONS == {<<".", "m", "k", "v">>, <<".", "m", "p", "4">>, <<".", "a", "v", "i">>}

\* The paths accepts() is called with: a stem followed by a tail.
PathStems == {<<>>, <<"a">>}

PathTails == {<<>>, <<".", "m", "k", "v">>, <<".", "M", "K", "V">>, <<".", "M", "p", "4">>, <<".", "t", "x", "t">>, <<"m", "k", "v">>}

Paths == {stem \o tail : stem \in PathStems, tail \in PathTails}

\* if self.executor is None: self.executor = False
ExecutorAfterAccepts(e) == IF e = "None" THEN "False" ELSE e

\* self.executor and video_path.lower().endswith(VIDEO_EXTENSIONS), as a
\* truth value (the False the expression yields without an executor is the
\* executor attribute itself).
AcceptsValueAnyExecutor(e, video_path) ==
    \E ext \in VIDEO_EXTENSIONS : EndsWith(Lower(video_path), ext)

AcceptsValue(e, video_path) ==
    /\ e = "Exec"
    /\ \E ext \in VIDEO_EXTENSIONS : EndsWith(Lower(video_path), ext)

Accepts(video_path) ==
    /\ Len(history) < MaxCalls
    /\ executor' = ExecutorAfterAccepts(executor)
    /\ history' = Append(history, [path |-> video_path,
                                   result |-> AcceptsValue(executor', video_path)])
    /\ UNCHANGED <<located, describeVars, handlerVars>>

\* MediaInfoProvider.__init__: self.executor = get_executor_instance(...),
\* an executor or None.
InitAccepts ==
    /\ located \in {"None", "Exec"}
    /\ executor = located
    /\ AcceptsIdle
    /\ DescribeInit
    /\ HandlersIdle

NextAccepts == \E video_path \in Paths : Accepts(video_path)

SpecAccepts == InitAccepts /\ [][NextAccepts]_vars

\* C7: on a provider constructed without an executor every accepts() call,
\* the first and all later ones, is falsy, whatever the path; on a provider
\* with an executor a call is truthy exactly when the lower-cased path ends
\* with a known video extension.
C7_AcceptsNeedsExecutor ==
    /\ located = "None" => executor = (IF history = <<>> THEN "None" ELSE "False")
    /\ located = "Exec" => executor = "Exec"
    /\ \A k \in 1..Len(history) :
          LET p == Lower(history[k].path)
              n == Len(p)
              video == \E ext \in {<<".", "m", "k", "v">>, <<".", "m", "p", "4">>, <<".", "a", "v", "i">>} :
                           n >= Len(ext) /\ SubSeq(p, n - Len(ext) + 1, n) = ext
          IN history[k].result = (located = "Exec" /\ video)

C7_Witness ==
    /\ located = "None"
    /\ executor = "False"
    /\ Len(history) = 2
    /\ history[1].path = <<"a", ".", "m", "k", "v">>
    /\ history[2].path = <<"a", ".", "M", "K", "V">>
    /\ ~history[1].result
    /\ ~history[2].result

\* ------------------------------------------------- raw and typed values

\* A value is a record of one shape: a string (s, its characters), an
\* integer (n), a float (n / 10^scale), a list (n, its length) or None.
StrV(s) == [kind |-> "str", s |-> s, n |-> 0, scale |-> 0]

IntV(n) == [kind |-> "int", s |-> <<>>, n |-> n, scale |-> 0]

ListV(n) == [kind |-> "list", s |-> <<>>, n |-> n, scale |-> 0]

NoneV == [kind |-> "none", s |-> <<>>, n |-> 0, scale |-> 0]

\* A float in lowest terms: 6.60 and 6.6 are the same float.
RECURSIVE FloatV(_, _)
FloatV(m, sc) ==
    IF sc > 0 /\ m % 10 = 0
    THEN FloatV(m \div 10, sc - 1)
    ELSE [kind |-> "float", s |-> <<>>, n |-> m, scale |-> sc]

\* The characters enumerated raw strings are made of.
StrChars == {"6", "-", " ", "_", ".", "s"}

ObjectBased == <<"o", "b", "j", "e", "c", "t", " ", "b", "a", "s", "e", "d">>

NamedStrings ==
    {ObjectBased, <<"O", "b", "j", "e", "c", "t", " ", "B", "a", "s", "e", "d">>, <<"O", "B", "J", "E", "C", "T", " ", "B", "A", "S", "E", "D">>, <<"o", "b", "j", "e", "c", "t", "-", "b", "a", "s", "e", "d">>, <<"s", "i", "x">>, <<"S", "i", "x">>, <<"1", "6">>, <<"5", ".", "1">>, <<"2", ".", "0">>, <<"1", "_", "0">>}

RawStrings ==
    UNION {[1..n -> StrChars] : n \in 0..MaxStrLen} \cup NamedStrings

\* The raw values a track may hold: strings, integers, lists.
RawValues ==
    {StrV(s) : s \in RawStrings} \cup {IntV(n) : n \in {0, 6, -2}}
        \cup {ListV(n) : n \in {0, 2}}

\* ------------------------------------------------ int(str) and float(str)

Digits == {"0", "1", "2", "3", "4", "5", "6", "7", "8", "9"}

DigitVal(c) ==
    CASE c = "0" -> 0 [] c = "1" -> 1 [] c = "2" -> 2 [] c = "3" -> 3
      [] c = "4" -> 4 [] c = "5" -> 5 [] c = "6" -> 6 [] c = "7" -> 7
      [] c = "8" -> 8 [] c = "9" -> 9

RECURSIVE LStrip(_)
LStrip(s) == IF s /= <<>> /\ s[1] = " " THEN LStrip(Tail(s)) ELSE s

RECURSIVE RStrip(_)
RStrip(s) ==
    IF s /= <<>> /\ s[Len(s)] = " " THEN RStrip(SubSeq(s, 1, Len(s) - 1)) ELSE s

\* Both conversions ignore surrounding whitespace.
Strip(s) == RStrip(LStrip(s))

\* An optional sign directly before the digits.
Unsigned(s) == IF s /= <<>> /\ s[1] \in {"+", "-"} THEN Tail(s) ELSE s

SignOf(s) == IF s /= <<>> /\ s[1] = "-" THEN -1 ELSE 1

\* digit (["_"] digit)*: single underscores may group digits.
IsDigitPart(s) ==
    /\ s /= <<>>
    /\ \A k \in 1..Len(s) : s[k] \in Digits \cup {"_"}
    /\ s[1] \in Digits
    /\ s[Len(s)] \in Digits
    /\ \A k \in 1..(Len(s) - 1) : ~(s[k] = "_" /\ s[k + 1] = "_")

RECURSIVE DigitsValue(_, _)
DigitsValue(s, acc) ==
    IF s = <<>> THEN acc
    ELSE DigitsValue(Tail(s), IF s[1] = "_" THEN acc ELSE acc * 10 + DigitVal(s[1]))

DigitCount(s) == Cardinality({k \in 1..Len(s) : s[k] \in Digits})

\* int(s): ok is FALSE where int raises ValueError.
IntParse(s) ==
    LET t == Strip(s)
        u == Unsigned(t)
    IN IF IsDigitPart(u)
       THEN [ok |-> TRUE, value |-> IntV(SignOf(t) * DigitsValue(u, 0))]
       ELSE [ok |-> FALSE, value |-> NoneV]

FirstDot(s) ==
    IF \E k \in 1..Len(s) : s[k] = "."
    THEN CHOOSE k \in 1..Len(s) : s[k] = "." /\ \A j \in 1..(k - 1) : s[j] /= "."
    ELSE 0

\* float(s) on strings without exponent part, inf or nan (the model's
\* strings hold none): [digits] ["." [digits]] with a digit somewhere.
FloatParse(s) ==
    LET t == Strip(s)
        u == Unsigned(t)
        d == FirstDot(u)
        ip == IF d = 0 THEN u ELSE SubSeq(u, 1, d - 1)
        fp == IF d = 0 THEN <<>> ELSE SubSeq(u, d + 1, Len(u))
    IN IF /\ ip = <<>> \/ IsDigitPart(ip)
          /\ fp = <<>> \/ IsDigitPart(fp)
          /\ ip /= <<>> \/ fp /= <<>>
       THEN [ok |-> TRUE,
             value |-> FloatV(SignOf(t) * DigitsValue(ip \o fp, 0), DigitCount(fp))]
       ELSE [ok |-> FALSE, value |-> NoneV]

\* ---------------------------------------------------------- the handlers

\* What a handle() call does: return a value (None included) after so many
\* report() calls, or let an exception escape.
Returned(v, reports) ==
    [status |-> "returned", value |-> v, exc |-> "none", reports |-> reports]

Raised(e) == [status |-> "raised", value |-> NoneV, exc |-> e, reports |-> 0]

\* AudioChannels.ignored
ignored == {ObjectBased}

AudioChannels_handle_CaseSensitive(value) ==
    IF value.kind = "int" THEN Returned(value, 0)
    ELSE IF value.kind /= "str" THEN Raised("AttributeError")
    ELSE IF value.s \notin ignored
         THEN IF IntParse(value.s).ok
              THEN Returned(IntParse(value.s).value, 0)
              ELSE Returned(NoneV, 1)
         ELSE Returned(NoneV, 0)

\* AudioChannels.handle(value, context)
AudioChannels_handle(value) ==
    IF value.kind = "int" THEN Returned(value, 0)
    ELSE IF value.kind /= "str" THEN Raised("AttributeError")  \* no .lower()
    ELSE LET v == Lower(value.s)
         IN IF v \notin ignored
            THEN IF IntParse(v).ok
                 THEN Returned(IntParse(v).value, 0)
                 ELSE Returned(NoneV, 1)                       \* except ValueError
            ELSE Returned(NoneV, 0)

\* The Basic properties of the provider's schema: the track ids (int, with
\* allow_fallback) and the aspect ratios (float, without).
BasicProps ==
    {[name |-> "ID", data_type |-> "int", allow_fallback |-> TRUE],
     [name |-> "DisplayAspectRatio", data_type |-> "float", allow_fallback |-> FALSE]}

\* self.data_type(value) for a string or an integer: int(str), float(str),
\* float(int).
Coerce(data_type, value) ==
    IF value.kind = "str"
    THEN IF data_type = "int" THEN IntParse(value.s) ELSE FloatParse(value.s)
    ELSE [ok |-> TRUE, value |-> FloatV(value.n, 0)]

\* Basic.handle(value, context)
Basic_handle(self, value) ==
    IF value.kind = self.data_type THEN Returned(value, 0)      \* isinstance
    ELSE IF value.kind = "list" THEN Raised("TypeError")        \* int([..])
    ELSE IF Coerce(self.data_type, value).ok
         THEN Returned(Coerce(self.data_type, value).value, 0)
         ELSE IF ~self.allow_fallback                           \* except ValueError
              THEN Returned(NoneV, 1)
              ELSE Returned(NoneV, 0)

\* Property.report(value, context): one more warning in the context.
Report(ws, name, reports) == IF reports > 0 THEN Append(ws, name) ELSE ws

HandleAudioChannels(value) ==
    /\ hphase = "ready"
    /\ Len(warnings) < MaxWarnings
    /\ hphase' = "returned"
    /\ hcall' = [handler |-> "AudioChannels", value |-> value, before |-> warnings]
    /\ houtcome' = [status |-> AudioChannels_handle(value).status,
                    value |-> AudioChannels_handle(value).value,
                    exc |-> AudioChannels_handle(value).exc]
    /\ warnings' = Report(warnings, "Channels", AudioChannels_handle(value).reports)
    /\ UNCHANGED <<providerVars, describeVars>>

HandleBasic(self, value) ==
    /\ hphase = "ready"
    /\ Len(warnings) < MaxWarnings
    /\ hphase' = "returned"
    /\ hcall' = [handler |-> self.name, value |-> value, before |-> warnings]
    /\ houtcome' = [status |-> Basic_handle(self, value).status,
                    value |-> Basic_handle(self, value).value,
                    exc |-> Basic_handle(self, value).exc]
    /\ warnings' = Report(warnings, self.name, Basic_handle(self, value).reports)
    /\ UNCHANGED <<providerVars, describeVars>>

NoCall == [handler |-> "none", value |-> NoneV, before |-> <<>>]

NoOutcome == [status |-> "none", value |-> NoneV, exc |-> "none"]

\* The handler returned: the track's next field is handled on the same context.
NextField ==
    /\ hphase = "returned"
    /\ houtcome.status = "returned"
    /\ hphase' = "ready"
    /\ hcall' = NoCall
    /\ houtcome' = NoOutcome
    /\ UNCHANGED <<warnings, providerVars, describeVars>>

\* The describe() call this context belongs to is over (or was ended by the
\* exception): the next file gets a new context.
NewContext ==
    /\ hphase = "returned"
    /\ hphase' = "ready"
    /\ hcall' = NoCall
    /\ houtcome' = NoOutcome
    /\ warnings' = <<>>
    /\ UNCHANGED <<providerVars, describeVars>>

InitHandlers ==
    /\ located = "Exec"
    /\ executor = located
    /\ AcceptsIdle
    /\ DescribeInit
    /\ HandlersIdle

NextHandlers ==
    \/ \E value \in RawValues : HandleAudioChannels(value)
    \/ \E self \in BasicProps, value \in RawValues : HandleBasic(self, value)
    \/ NextField
    \/ NewContext

SpecHandlers == InitHandlers /\ [][NextHandlers]_vars

\* -------------------------------------------------------- handlers: claims

\* A decimal integer string: digits and nothing else.
AllDigits(s) == s /= <<>> /\ \A k \in 1..Len(s) : s[k] \in Digits

\* A string that holds no digit at all.
NoDigit(s) == \A k \in 1..Len(s) : s[k] \notin Digits

RECURSIVE Decimal(_)
Decimal(s) ==
    IF s = <<>> THEN 0
    ELSE 10 * Decimal(SubSeq(s, 1, Len(s) - 1)) + DigitVal(s[Len(s)])

ReturnedValue(v) == houtcome.status = "returned" /\ houtcome.value = v

\* C4: AudioChannels.handle on a string: a decimal integer string yields
\* that integer and no warning; a string equal to "object based" whatever
\* its case yields no value and no warning; any other string without a
\* digit yields no value and exactly one more warning in the context.
C4_AudioChannelsStrings ==
    (hphase = "returned" /\ hcall.handler = "AudioChannels" /\ hcall.value.kind = "str") =>
        LET s == hcall.value.s
        IN /\ AllDigits(s) =>
                 ReturnedValue(IntV(Decimal(s))) /\ warnings = hcall.before
           /\ Lower(s) = ObjectBased =>
                 ReturnedValue(NoneV) /\ warnings = hcall.before
           /\ (NoDigit(s) /\ Lower(s) /= ObjectBased) =>
                 ReturnedValue(NoneV) /\ warnings = Append(hcall.before, "Channels")

C4_Witness ==
    /\ hphase = "returned"
    /\ hcall.handler = "AudioChannels"
    /\ hcall.value = StrV(<<"s", "i", "x">>)
    /\ hcall.before = <<"DisplayAspectRatio">>
    /\ warnings = <<"DisplayAspectRatio", "Channels">>
    /\ houtcome.value = NoneV

\* C5: Basic.handle on a non-empty string that cannot be coerced to the declared
\* type: without allow_fallback it records a warning and yields no value;
\* with allow_fallback it records no warning and returns the raw string
\* unchanged.
C5_BasicFallbackReturnsRaw ==
    \A self \in BasicProps :
        (/\ hphase = "returned"
         /\ hcall.handler = self.name
         /\ hcall.value.kind = "str"
         /\ hcall.value.s /= <<>>
         /\ NoDigit(hcall.value.s)) =>
            IF self.allow_fallback
            THEN ReturnedValue(hcall.value) /\ warnings = hcall.before
            ELSE ReturnedValue(NoneV) /\ warnings = Append(hcall.before, self.name)

\* C6: no Basic.handle or AudioChannels.handle call on a string, an integer
\* or a list lets an exception escape: each returns a value or None.
C6_HandlersNeverRaise ==
    (hphase = "returned" /\ hcall.value.kind \in {"str", "int", "list"}) =>
        houtcome.status = "returned"

====
